---- MODULE Spec2Model ----
(***************************************************************************)
(* The render-outline pipeline of react-scan (new-outlines/index.ts):      *)
(* outlineFiber aggregates render notifications into blueprintMap, a       *)
(* 32 ms interval enqueues flushOutlines on the next animation frame,      *)
(* flushOutlines resolves geometry through getBatchedRectMap (an async     *)
(* generator over IntersectionObserver callbacks) and forwards outline     *)
(* records to the renderer after every batch, then clears the window.      *)
(*                                                                         *)
(* JavaScript runs one task at a time and drains the microtask queue after *)
(* each task.  Tasks here are: a render notification, an interval tick, an *)
(* animation-frame callback, an IntersectionObserver callback.  Promise    *)
(* continuations of flushOutlines are microtasks: while one is pending no  *)
(* task may start.                                                         *)
(***************************************************************************)
EXTENDS Integers, Sequences, FiniteSets, TLC

VARIABLES
    blueprintMap,      \* Map<Fiber, BlueprintOutline>: a function on the fibers present
    blueprintMapKeys,  \* Set<Fiber> in insertion order: a sequence without duplicates
    rafQueue,          \* number of flushOutlines callbacks queued by requestAnimationFrame
    cycles,            \* one record per flushOutlines execution, in start order
    posted,            \* the record set the last step handed to the renderer, << >> if none
    consumedBy,        \* the cycle whose for-await body ran in the last step, 0 if none
    notifCount,        \* history: accepted notifications per fiber since its blueprint was created
    notifCommit,       \* history: whether one of those notifications had didCommit
    flushedBy,         \* history: the cycle that last forwarded a record of the blueprint, 0 if none
    mergeInput,        \* the rectangle list of a call of mergeRects on its own
    mergeOutput,       \* what that call returned: << >> before it returns, then <<rect>>
    stopped,           \* globalThis.__REACT_SCAN_STOP__
    hostAttached,      \* the host container [data-react-scan] is in the document
    mounted,           \* scheduleSetup has run getCanvasEl
    canvas,            \* canvas is not null
    worker,            \* worker is not null
    workerInit,        \* history: the init message reached the worker
    ctx,               \* ctx is not null
    activeOutlines,    \* the frames the outlines of activeOutlines have left, 0 if it is empty
    animationFrameId,  \* animationFrameId is not null
    drawQueue,         \* number of draw callbacks queued by requestAnimationFrame
    isResizeScheduled, \* the flag isResizeScheduled of the resize listener
    resizeTimers,      \* number of pending timeouts of the resize listener
    lastVia,           \* history: where the last record set went
    scrollPos,         \* <<window.scrollX, window.scrollY>>
    scrollEventPending,\* the document has scrolled and its scroll event is yet to fire
    prevScroll,        \* <<prevScrollX, prevScrollY>>
    isScrollScheduled, \* the flag isScrollScheduled of the scroll listener
    scrollTimers,      \* number of pending timeouts of the scroll listener
    setupScroll,       \* history: the scroll position when getCanvasEl ran
    forwardedSum,      \* history: the sum of the deltas forwarded to the renderer
    heap,              \* the array buffers allocated so far: [data, posted]
    arrayBuffer,       \* the buffer of the record set being encoded (index in heap), 0 if none
    blueprints,        \* the record set being encoded, << >> if none
    blueprintNames,    \* the name list being filled
    fillIndex,         \* the loop variable i of the encoding loop
    messages,          \* the draw-outlines messages posted to the worker, in order
    options,           \* ReactScanInternals.options.value: a function on the keys it has
    prevOptions,       \* history: the options before the last call of setOptions
    lastUser,          \* history: the argument of the last call of setOptions
    instrumentation,   \* ReactScanInternals.instrumentation is not null
    isPaused,          \* instrumentation.isPaused.value
    renderSkipped,     \* history: the last render notification found the overlay paused
    schedule,          \* the handle in `schedule` of initReactScanInstrumentation, 0 if undefined
    setupQueue,        \* the handles of the setup callbacks requestAnimationFrame holds
    nextHandle,        \* the handle requestAnimationFrame returned last
    setupRuns,         \* history: how often the setup callback has run since Init
    pushStateWrappers,    \* the wrappers start() has put around history.pushState
    replaceStateWrappers, \* the wrappers start() has put around history.replaceState
    messageListenerAdded, \* the module flag messageListenerAdded
    messageListeners,  \* number of 'message' listeners registered on window
    urlChanged,        \* history: the IFRAME_URL_CHANGED messages the last navigation posted
    requests,          \* the requests of the parent: type and progress of each
    responses          \* the response messages posted to the parent, per requestId

vars == <<blueprintMap, blueprintMapKeys, rafQueue, cycles, posted, consumedBy,
          notifCount, notifCommit, flushedBy, mergeInput, mergeOutput,
          stopped, hostAttached, mounted, canvas, worker, workerInit, ctx,
          activeOutlines, animationFrameId, drawQueue, isResizeScheduled,
          resizeTimers, lastVia, scrollPos, scrollEventPending, prevScroll,
          isScrollScheduled, scrollTimers, setupScroll, forwardedSum, heap,
          arrayBuffer, blueprints, blueprintNames, fillIndex,
          messages, options, prevOptions, lastUser, instrumentation, isPaused,
          renderSkipped, schedule, setupQueue, nextHandle, setupRuns,
          pushStateWrappers, replaceStateWrappers, messageListenerAdded,
          messageListeners, urlChanged, requests, responses>>

\* the variables of the pipeline, and those of a call of mergeRects on its own
pipelineVars == <<blueprintMap, blueprintMapKeys, rafQueue, cycles, posted, consumedBy,
                  notifCount, notifCommit, flushedBy>>

mergeVars == <<mergeInput, mergeOutput>>

stopVars == <<stopped, hostAttached>>

rendererVars == <<mounted, canvas, worker, workerInit, ctx, activeOutlines,
                  animationFrameId, drawQueue, isResizeScheduled, resizeTimers,
                  lastVia>>

scrollVars == <<scrollPos, scrollEventPending, prevScroll, isScrollScheduled,
                scrollTimers, setupScroll, forwardedSum>>

bufferVars == <<heap, arrayBuffer, blueprints, blueprintNames, fillIndex, messages>>

\* what no step of the pipeline touches
optionVars == <<options, prevOptions, lastUser, instrumentation, isPaused,
                renderSkipped>>

setupVars == <<schedule, setupQueue, nextHandle, setupRuns>>

\* the variables of the public API in core/index.ts and of the setup it starts
frameVars == <<pushStateWrappers, replaceStateWrappers, messageListenerAdded,
               messageListeners, urlChanged, requests, responses>>

apiVars == <<optionVars, setupVars, frameVars>>

auxVars == <<mergeVars, stopVars, rendererVars, scrollVars, bufferVars, apiVars>>

\* the history of the aggregation window
hist == <<notifCount, notifCommit, flushedBy>>

\* no step but the for-await body hands anything to the renderer
NothingForwarded == posted' = << >> /\ consumedBy' = 0

----------------------------------------------------------------------------
(* Bounds of the model *)

MaxCount == 2
MaxCycles == 2
MaxEntries == 2
MaxCoord == 1
MaxRects == 2
MaxLife == 2
MaxPending == 3
MaxScroll == 1
MaxRecords == 2
MaxForwards == 2
MaxFields == 2
MaxHandles == 3
MaxStarts == 2
MaxRequests == 2

----------------------------------------------------------------------------
(* The environment: fibers, their host nodes, the rectangles the host reports *)

Fibers == {"A", "B", "C", "D", "E"}

\* "D" is a host fiber, every other fiber is a function or class component
isCompositeFiber(f) == f # "D"

\* "E" is an anonymous component: getDisplayName gives nothing
getDisplayName(f) == IF f = "E" THEN "" ELSE f

\* didFiberCommit: "A" renders with and without a committed mutation, "B" always
\* without, "C" always with
CommitFlags(f) == IF f = "A" THEN BOOLEAN ELSE IF f = "B" THEN {FALSE} ELSE {TRUE}

getFiberId(f) ==
    CASE f = "A" -> 1 [] f = "B" -> 2 [] f = "C" -> 3 [] f = "D" -> 4 [] OTHER -> 5

Elements == {"e1", "e2"}

\* "n1" is a stateNode that is no Element (a text or native node): the
\* instanceof Element test of flushOutlines is membership in Elements

\* getNearestHostFibers(fiber).map(f => f.stateNode); "C" renders null
HostNodes(f) ==
    CASE f = "A" -> <<"e1">>
      [] f = "B" -> <<"e2", "n1", "e1">>
      [] OTHER -> << >>

DOMRect(x, y, w, h) == [x |-> x, y |-> y, width |-> w, height |-> h]

EmptyRect == DOMRect(0, 0, 0, 0)

LayoutRect(e) == IF e = "e1" THEN DOMRect(0, 0, 10, 10) ELSE DOMRect(20, 20, 5, 5)

\* What the host may report for an element: on screen, or not: "e1" then
\* touches the viewport edge (intersecting, with an empty intersection
\* rectangle) and "e2" is off screen.
EntriesOf(e) ==
    { [target |-> e, intersectionRect |-> LayoutRect(e), isIntersecting |-> TRUE],
      [target |-> e, intersectionRect |-> EmptyRect, isIntersecting |-> (e = "e1")] }

EntryLists(targets) ==
    LET E == UNION {EntriesOf(e) : e \in targets}
    IN  UNION {[1..n -> E] : n \in 1..MaxEntries}

----------------------------------------------------------------------------
(* Helpers on sequences, maps and numbers *)

Range(s) == {s[i] : i \in 1..Len(s)}

MapSet(m, k, v) == [j \in DOMAIN m \cup {k} |-> IF j = k THEN v ELSE m[j]]

EmptyMap == << >>

Min(a, b) == IF a < b THEN a ELSE b

Max(a, b) == IF a > b THEN a ELSE b

RECURSIVE FilterSeq(_, _)
FilterSeq(s, S) ==
    IF s = << >> THEN << >>
    ELSE IF Head(s) \in S THEN <<Head(s)>> \o FilterSeq(Tail(s), S)
         ELSE FilterSeq(Tail(s), S)

----------------------------------------------------------------------------
(* outlineFiber: the Blueprint Aggregator *)

\* the blueprint created by the first notification of a fiber
NewBlueprint(f, didCommit) ==
    [name |-> getDisplayName(f),
     count |-> 1,
     elements |-> HostNodes(f),
     didCommit |-> IF didCommit THEN 1 ELSE 0]

\* a later notification that leaves the blueprint as it is
BumpBlueprint_Lost(bp, didCommit) == bp

\* a later notification that counts down
BumpBlueprint_Down(bp, didCommit) == [bp EXCEPT !.count = @ - 1]

\* what a later notification does to the blueprint of its fiber
BumpBlueprint(bp, didCommit) == [bp EXCEPT !.count = @ + 1]

\* an add that leaves the key set as it is
SetAdd_Noop(keys, f) == keys

\* Set.add on the insertion-ordered key set
SetAdd(keys, f) == IF f \in Range(keys) THEN keys ELSE Append(keys, f)

\* no promise continuation of any flushOutlines execution is pending
NoMicrotask == \A c \in DOMAIN cycles : cycles[c].pc \in {"await", "finished"}

OutlineFiber(f, didCommit) ==
    /\ NoMicrotask
    /\ f \in DOMAIN blueprintMap => blueprintMap[f].count < MaxCount
    /\ IF ~isCompositeFiber(f) \/ getDisplayName(f) = ""
       THEN UNCHANGED <<blueprintMap, blueprintMapKeys, hist>>
       ELSE IF f \notin DOMAIN blueprintMap
            THEN /\ blueprintMap' = MapSet(blueprintMap, f, NewBlueprint(f, didCommit))
                 /\ blueprintMapKeys' = SetAdd(blueprintMapKeys, f)
                 /\ notifCount' = [notifCount EXCEPT ![f] = 1]
                 /\ notifCommit' = [notifCommit EXCEPT ![f] = didCommit]
                 /\ flushedBy' = [flushedBy EXCEPT ![f] = 0]
            ELSE /\ blueprintMap' =
                        [blueprintMap EXCEPT ![f] = BumpBlueprint(@, didCommit)]
                 /\ notifCount' = [notifCount EXCEPT ![f] = @ + 1]
                 /\ notifCommit' = [notifCommit EXCEPT ![f] = @ \/ didCommit]
                 /\ UNCHANGED <<blueprintMapKeys, flushedBy>>
    /\ NothingForwarded
    /\ UNCHANGED <<rafQueue, cycles, auxVars>>

----------------------------------------------------------------------------
(* mergeRects: the Rect Merger *)

RECURSIVE BoundsOf_NoOffset(_, _)
\* a loop that takes the width and height of a rectangle for its far edges
BoundsOf_NoOffset(rects, acc) ==
    IF rects = << >> THEN acc
    ELSE LET r == Head(rects)
         IN  BoundsOf_NoOffset(Tail(rects),
                               <<Min(acc[1], r.x), Min(acc[2], r.y),
                                 Max(acc[3], r.width), Max(acc[4], r.height)>>)

RECURSIVE BoundsOf(_, _)
\* the loop of mergeRects: acc is <<minX, minY, maxX, maxY>>
BoundsOf(rects, acc) ==
    IF rects = << >> THEN acc
    ELSE LET r == Head(rects)
         IN  BoundsOf(Tail(rects),
                      <<Min(acc[1], r.x), Min(acc[2], r.y),
                        Max(acc[3], r.x + r.width), Max(acc[4], r.y + r.height)>>)

\* a merge whose box always starts at the origin
mergeRects_Origin(rects) ==
    LET b == BoundsOf(rects, <<0, 0, 0, 0>>)
    IN  DOMRect(b[1], b[2], b[3] - b[1], b[4] - b[2])

\* rects[0] of an empty array
Undefined == [undefined |-> TRUE]

mergeRects(rects) ==
    IF Len(rects) = 1 THEN rects[1]
    ELSE IF rects = << >> THEN Undefined
    ELSE LET f == rects[1]
             b == BoundsOf(Tail(rects), <<f.x, f.y, f.x + f.width, f.y + f.height>>)
         IN  DOMRect(b[1], b[2], b[3] - b[1], b[4] - b[2])

----------------------------------------------------------------------------
(* onIntersect and getBatchedRectMap: the Batched Visibility Resolver *)

\* a callback that hands over every entry, seen or not
NewEntries_NoFilter(entries, seen) == entries

RECURSIVE NewEntries_Reversed(_, _)
\* a callback that hands over its new entries last to first
NewEntries_Reversed(entries, seen) ==
    IF entries = << >> THEN << >>
    ELSE IF Head(entries).target \in seen
         THEN NewEntries_Reversed(Tail(entries), seen)
         ELSE NewEntries_Reversed(Tail(entries), seen \cup {Head(entries).target})
                  \o <<Head(entries)>>

RECURSIVE NewEntries(_, _)
\* the entries of a callback whose target has not been seen, first occurrence only
NewEntries(entries, seen) ==
    IF entries = << >> THEN << >>
    ELSE IF Head(entries).target \in seen
         THEN NewEntries(Tail(entries), seen)
         ELSE <<Head(entries)>> \o NewEntries(Tail(entries), seen \cup {Head(entries).target})

Targets(entries) == {entries[i].target : i \in 1..Len(entries)}

\* a termination test that compares with one element too many
AllSeen_OffByOne(seen, unique) == Cardinality(seen) = Cardinality(unique) + 1

\* seenElements.size === uniqueElements.size
AllSeen(seen, unique) == Cardinality(seen) = Cardinality(unique)

\* a resolve function is stored and the callback has something new to hand over
ShouldResolve(newEntries, resolveNext) == Len(newEntries) > 0 /\ resolveNext

\* the state of the pass after onIntersect ran with `entries`
AfterIntersect(cy, entries) ==
    LET new == NewEntries(entries, cy.seenElements)
        seen == cy.seenElements \cup Targets(entries)
        first == ShouldResolve(new, cy.resolveNext)
        rn == IF first THEN FALSE ELSE cy.resolveNext
        fin == AllSeen(seen, cy.uniqueElements)
        \* a promise settles once: only the first resolve of a pending promise counts
        settle == cy.pc = "await" /\ (first \/ (fin /\ rn))
    IN  [cy EXCEPT !.seenElements = seen,
                   !.resolveNext = rn,
                   !.connected = IF fin THEN FALSE ELSE @,
                   !.done = IF fin THEN TRUE ELSE @,
                   !.value = IF settle THEN (IF first THEN new ELSE << >>) ELSE @,
                   !.pc = IF settle THEN "resolved" ELSE @]

\* the state of a pass when getBatchedRectMap(elements) reaches its first await
NewPass(elements) ==
    [pc |-> "await",
     uniqueElements |-> Range(elements),
     seenElements |-> {},
     resolveNext |-> TRUE,
     done |-> FALSE,
     connected |-> TRUE,
     value |-> << >>,
     rectsMap |-> EmptyMap,
     \* history: the elements the host has reported, and how often each element
     \* has been handed to the for-await body
     reported |-> {},
     delivered |-> [e \in Elements |-> 0],
     \* history: the ids of the record set this pass forwarded last
     lastIds |-> {}]

\* an observer that keeps watching after disconnect
Observed_Leaky(cy) == cy.uniqueElements

\* the elements the observer of a pass watches
Observed(cy) == IF cy.connected THEN cy.uniqueElements ELSE {}

----------------------------------------------------------------------------
(* flushOutlines: the Frame Flusher *)

RECURSIVE CollectElements_Unfiltered(_, _)
\* a first loop that collects every entry of every pending blueprint
CollectElements_Unfiltered(keys, map) ==
    IF keys = << >> THEN << >>
    ELSE IF Head(keys) \notin DOMAIN map THEN CollectElements_Unfiltered(Tail(keys), map)
         ELSE map[Head(keys)].elements \o CollectElements_Unfiltered(Tail(keys), map)

RECURSIVE CollectElements(_, _)
\* the first loop of flushOutlines: every Element of every pending blueprint
CollectElements(keys, map) ==
    IF keys = << >> THEN << >>
    ELSE IF Head(keys) \notin DOMAIN map THEN CollectElements(Tail(keys), map)
         ELSE FilterSeq(map[Head(keys)].elements, Elements)
                  \o CollectElements(Tail(keys), map)

\* whether an entry's rectangle is stored in rectsMap
Resolves(entry) ==
    /\ entry.isIntersecting
    /\ entry.intersectionRect.width # 0
    /\ entry.intersectionRect.height # 0

RECURSIVE StoreRects(_, _)
StoreRects(entries, rects) ==
    IF entries = << >> THEN rects
    ELSE StoreRects(Tail(entries),
                    IF Resolves(Head(entries))
                    THEN MapSet(rects, Head(entries).target, Head(entries).intersectionRect)
                    ELSE rects)

RECURSIVE BlueprintRects(_, _)
\* the rectangles resolved so far for the elements of one blueprint
BlueprintRects(elements, rects) ==
    IF elements = << >> THEN << >>
    ELSE IF Head(elements) \in DOMAIN rects
         THEN <<rects[Head(elements)]>> \o BlueprintRects(Tail(elements), rects)
         ELSE BlueprintRects(Tail(elements), rects)

\* a loop that merges the rectangles of every blueprint
SkipBlueprint_Never(rects) == FALSE

\* a blueprint without a resolved rectangle gives no record
SkipBlueprint(rects) == Len(rects) = 0

RECURSIVE MergeCalls(_, _, _)
\* the rectangle lists the loop over the blueprints passes to mergeRects
MergeCalls(keys, map, rects) ==
    IF keys = << >> THEN << >>
    ELSE LET f == Head(keys)
             rest == MergeCalls(Tail(keys), map, rects)
         IN  IF f \notin DOMAIN map THEN rest
             ELSE LET rs == BlueprintRects(map[f].elements, rects)
                  IN  IF SkipBlueprint(rs) THEN rest ELSE <<rs>> \o rest

\* destructuring a merged rectangle that is undefined throws a TypeError
\* before anything of the batch is forwarded
Throws(keys, map, rects) ==
    \E i \in 1..Len(MergeCalls(keys, map, rects)) :
        mergeRects(MergeCalls(keys, map, rects)[i]) = Undefined

\* a record that carries the count of a fresh blueprint
OutlineData_FirstCount(f, bp, rect) ==
    [id |-> getFiberId(f), name |-> bp.name, count |-> 1,
     x |-> rect.x, y |-> rect.y, width |-> rect.width, height |-> rect.height,
     didCommit |-> bp.didCommit]

OutlineData(f, bp, rect) ==
    [id |-> getFiberId(f), name |-> bp.name, count |-> bp.count,
     x |-> rect.x, y |-> rect.y, width |-> rect.width, height |-> rect.height,
     didCommit |-> bp.didCommit]

RECURSIVE OutlineRecords(_, _, _)
\* the records built after a batch, in key order
OutlineRecords(keys, map, rects) ==
    IF keys = << >> THEN << >>
    ELSE LET f == Head(keys)
             rest == OutlineRecords(Tail(keys), map, rects)
         IN  IF f \notin DOMAIN map THEN rest
             ELSE LET rs == BlueprintRects(map[f].elements, rects)
                  IN  IF SkipBlueprint(rs) THEN rest
                      ELSE <<OutlineData(f, map[f], mergeRects(rs))>> \o rest

RecordIds(records) == {records[i].id : i \in 1..Len(records)}

\* a scheduler that enqueues at every tick
ShouldEnqueue_Always == TRUE

\* the scheduler's condition for enqueuing a flush at an interval tick
ShouldEnqueue == Len(blueprintMapKeys) > 0

\* room for one more flushOutlines execution within the bound of the model
Room == Len(cycles) + rafQueue < MaxCycles

\* a scheduler that enqueues only while no flushOutlines execution is unfinished
IntervalTick_Serialized ==
    /\ NoMicrotask
    /\ Room
    /\ rafQueue' = IF ShouldEnqueue /\ \A c \in DOMAIN cycles : cycles[c].pc = "finished"
                   THEN rafQueue + 1 ELSE rafQueue
    /\ NothingForwarded
    /\ UNCHANGED <<blueprintMap, blueprintMapKeys, cycles, hist, auxVars>>

\* setInterval(() => { if (blueprintMapKeys.size) requestAnimationFrame(flushOutlines) })
IntervalTick ==
    /\ NoMicrotask
    /\ Room
    /\ rafQueue' = IF ShouldEnqueue THEN rafQueue + 1 ELSE rafQueue
    /\ NothingForwarded
    /\ UNCHANGED <<blueprintMap, blueprintMapKeys, cycles, hist, auxVars>>

\* the animation frame runs flushOutlines up to the first await of the resolver
RunFlush ==
    /\ NoMicrotask
    /\ rafQueue > 0
    /\ rafQueue' = rafQueue - 1
    /\ cycles' = Append(cycles,
                        NewPass(CollectElements(blueprintMapKeys, blueprintMap)))
    /\ NothingForwarded
    /\ UNCHANGED <<blueprintMap, blueprintMapKeys, hist, auxVars>>

\* the keys the clear at the end of flushOutlines removes
ClearedKeys == Range(blueprintMapKeys)

\* how often each element has been handed to the for-await body
CountDelivered(delivered, entries) ==
    [e \in Elements |->
        delivered[e] + Cardinality({i \in 1..Len(entries) : entries[i].target = e})]

\* a continuation that leaves the rectangles of its batch for a later turn
AfterResume_Deferred(cy) ==
    [cy EXCEPT !.delivered = CountDelivered(@, cy.value),
               !.value = << >>,
               !.resolveNext = IF cy.done THEN @ ELSE TRUE,
               !.pc = IF cy.done THEN "exit" ELSE "await"]

\* the pass after the continuation of a resolved await: the generator yields a
\* non-empty batch to the for-await body, which stores the rectangles, and the
\* loop head then either awaits again or leaves the loop
AfterResume(cy) ==
    LET yields == Len(cy.value) > 0
    IN  [cy EXCEPT !.rectsMap = IF yields THEN StoreRects(cy.value, @) ELSE @,
                   !.delivered = CountDelivered(@, cy.value),
                   !.value = << >>,
                   !.resolveNext = IF cy.done THEN @ ELSE TRUE,
                   !.pc = IF cy.done THEN "exit" ELSE "await"]

\* a loop that runs its body for whatever a callback leaves behind
LoopBodyRuns_Always(mid) == TRUE

\* the for-await body runs: the callback resolved the awaited promise and the
\* generator yields, which it does for a batch with entries only
LoopBodyRuns(mid) == mid.pc = "resolved" /\ Len(mid.value) > 0

\* An IntersectionObserver callback of pass c, with the promise continuations it
\* wakes: they run in the microtask checkpoint that ends the callback's task,
\* before any other task.
OnIntersect(c, entries) ==
    /\ NoMicrotask
    /\ Targets(entries) \subseteq Observed(cycles[c])
    /\ \E mid \in {AfterIntersect(cycles[c], entries)} :
       \E after \in {[(IF mid.pc = "resolved" THEN AfterResume(mid) ELSE mid)
                         EXCEPT !.reported = @ \cup Targets(entries)]} :
       \E records \in {IF LoopBodyRuns(mid)
                           /\ ~Throws(blueprintMapKeys, blueprintMap, after.rectsMap)
                        THEN OutlineRecords(blueprintMapKeys, blueprintMap, after.rectsMap)
                        ELSE << >>} :
          /\ cycles' = [cycles EXCEPT ![c] =
                 [after EXCEPT !.lastIds = IF records = << >> THEN @
                                           ELSE RecordIds(records)]]
          /\ posted' = records
          /\ consumedBy' = IF LoopBodyRuns(mid) THEN c ELSE 0
          /\ flushedBy' = [f \in Fibers |->
                 IF getFiberId(f) \in RecordIds(records) THEN c ELSE flushedBy[f]]
    /\ UNCHANGED <<blueprintMap, blueprintMapKeys, rafQueue, notifCount, notifCommit,
                   auxVars>>

\* the loop over the resolver has ended: the window is cleared and the locals
\* of the execution (rectsMap, the element sets of the pass) are gone
Finish(c) ==
    /\ cycles[c].pc = "exit"
    /\ LET gone == ClearedKeys
       IN  /\ blueprintMap' = [f \in DOMAIN blueprintMap \ gone |-> blueprintMap[f]]
           /\ blueprintMapKeys' = FilterSeq(blueprintMapKeys, Fibers \ gone)
           /\ notifCount' = [f \in Fibers |-> IF f \in gone THEN 0 ELSE notifCount[f]]
           /\ notifCommit' = [f \in Fibers |-> IF f \in gone THEN FALSE ELSE notifCommit[f]]
           /\ flushedBy' = [f \in Fibers |-> IF f \in gone THEN 0 ELSE flushedBy[f]]
    /\ cycles' = [cycles EXCEPT ![c] =
           [@ EXCEPT !.pc = "finished", !.rectsMap = EmptyMap,
                     !.uniqueElements = {}, !.seenElements = {}, !.reported = {},
                     !.delivered = [e \in Elements |-> 0], !.lastIds = {}]]
    /\ NothingForwarded
    /\ UNCHANGED <<rafQueue, auxVars>>

----------------------------------------------------------------------------
(* The specification *)

PipelineInit ==
    /\ blueprintMap = EmptyMap
    /\ blueprintMapKeys = << >>
    /\ rafQueue = 0
    /\ cycles = << >>
    /\ posted = << >>
    /\ consumedBy = 0
    /\ notifCount = [f \in Fibers |-> 0]
    /\ notifCommit = [f \in Fibers |-> FALSE]
    /\ flushedBy = [f \in Fibers |-> 0]

\* no call of mergeRects on its own
MergeIdle ==
    /\ mergeInput = << >>
    /\ mergeOutput = << >>

\* getCanvasEl has run and stop() has not
Running ==
    /\ stopped = FALSE
    /\ hostAttached = TRUE

\* the in-process renderer after setup, with nothing to paint
RendererIdle ==
    /\ mounted = TRUE
    /\ canvas = TRUE
    /\ worker = FALSE
    /\ workerInit = FALSE
    /\ ctx = TRUE
    /\ activeOutlines = 0
    /\ animationFrameId = FALSE
    /\ drawQueue = 0
    /\ isResizeScheduled = FALSE
    /\ resizeTimers = 0
    /\ lastVia = "none"

\* a document that does not scroll
ScrollIdle ==
    /\ scrollPos = <<0, 0>>
    /\ scrollEventPending = FALSE
    /\ prevScroll = <<0, 0>>
    /\ isScrollScheduled = FALSE
    /\ scrollTimers = 0
    /\ setupScroll = <<0, 0>>
    /\ forwardedSum = <<0, 0>>

\* no record set has been encoded
BufferIdle ==
    /\ heap = << >>
    /\ arrayBuffer = 0
    /\ blueprints = << >>
    /\ blueprintNames = << >>
    /\ fillIndex = 0
    /\ messages = << >>

\* the keys the options signal is created with
DefaultKeys ==
    {"enabled", "log", "showToolbar", "animationSpeed",
     "dangerouslyForceRunInProduction", "showFPS", "showNotificationCount"}

\* the value of ReactScanInternals.options at module load; a value is written
\* as the string of its source text, "fn" is a function
DefaultOptions ==
    [k \in DefaultKeys |->
        CASE k = "animationSpeed" -> "fast"
          [] k \in {"log", "dangerouslyForceRunInProduction"} -> "false"
          [] OTHER -> "true"]

\* the argument object without own properties
NoFields == [k \in {} |-> ""]

\* setOptions has not been called, start() has not created the instrumentation
OptionsIdle ==
    /\ options = DefaultOptions
    /\ prevOptions = DefaultOptions
    /\ lastUser = NoFields
    /\ instrumentation = FALSE
    /\ isPaused = FALSE
    /\ renderSkipped = FALSE

\* no setup callback is requested
SetupIdle ==
    /\ schedule = 0
    /\ setupQueue = {}
    /\ nextHandle = 0
    /\ setupRuns = 0

RequestIds == 1..MaxRequests

\* the module is loaded (its last statement has registered the message
\* listener), start() has not run, the parent has sent nothing
FrameIdle ==
    /\ pushStateWrappers = 0
    /\ replaceStateWrappers = 0
    /\ messageListenerAdded = TRUE
    /\ messageListeners = 1
    /\ urlChanged = 0
    /\ requests = [r \in RequestIds |-> [type |-> "none", pc |-> "idle"]]
    /\ responses = [r \in RequestIds |-> << >>]

ApiIdle == OptionsIdle /\ SetupIdle /\ FrameIdle

Init ==
    /\ PipelineInit
    /\ MergeIdle
    /\ Running
    /\ RendererIdle
    /\ ScrollIdle
    /\ BufferIdle
    /\ ApiIdle

Next ==
    \/ \E f \in Fibers : \E didCommit \in CommitFlags(f) : OutlineFiber(f, didCommit)
    \/ IntervalTick
    \/ RunFlush
    \/ \E c \in DOMAIN cycles :
          \E entries \in EntryLists(Observed(cycles[c])) : OnIntersect(c, entries)
    \/ \E c \in DOMAIN cycles : Finish(c)

Spec == Init /\ [][Next]_vars

----------------------------------------------------------------------------
(* mergeRects on its own: one call on a list of rectangles *)

\* rectangles on a small grid, and the two layout rectangles of the environment
Rects ==
    {DOMRect(x, y, w, h) : x \in 0..MaxCoord, y \in 0..MaxCoord,
                           w \in 0..MaxCoord, h \in 0..MaxCoord}
        \cup {LayoutRect(e) : e \in Elements}

\* the lists flushOutlines passes to mergeRects are never empty
RectLists == UNION {[1..n -> Rects] : n \in 1..MaxRects}

InitMerge ==
    /\ PipelineInit
    /\ Running
    /\ RendererIdle
    /\ ScrollIdle
    /\ BufferIdle
    /\ ApiIdle
    /\ mergeInput \in RectLists
    /\ mergeOutput = << >>

CallMergeRects ==
    /\ mergeOutput = << >>
    /\ mergeOutput' = <<mergeRects(mergeInput)>>
    /\ UNCHANGED <<pipelineVars, mergeInput, stopVars, rendererVars, scrollVars,
                   bufferVars, apiVars>>

NextMerge == CallMergeRects

SpecMerge == InitMerge /\ [][NextMerge]_vars

----------------------------------------------------------------------------
(* getCanvasEl, the dispatch of flushOutlines, draw and the resize handler:   *)
(* the two renderer variants and the animation loop of the in-process one     *)

\* How far the worker initialisation gets: the host has no OffscreenCanvas or
\* Worker (or the extension flag is set), new Worker throws,
\* transferControlToOffscreen throws, postMessage throws, or all succeed.
InitOutcomes == {"unsupported", "worker throws", "transfer throws", "post throws", "ok"}

\* worker is assigned as soon as new Worker returns
WorkerAssigned(outcome) == outcome \in {"transfer throws", "post throws", "ok"}

\* a setup that builds the context whenever the initialisation did not succeed
NeedsContext_AfterFailure(outcome) == outcome # "ok"

\* if (!worker) ctx = initCanvas(canvasEl, dpr)
NeedsContext(outcome) == ~WorkerAssigned(outcome)

\* the body of getCanvasEl, and the host it returns being appended
getCanvasEl(outcome) ==
    /\ canvas' = TRUE
    /\ worker' = WorkerAssigned(outcome)
    /\ workerInit' = (outcome = "ok")
    /\ ctx' = NeedsContext(outcome)
    /\ hostAttached' = TRUE
    /\ prevScroll' = scrollPos
    /\ setupScroll' = scrollPos
    /\ forwardedSum' = <<0, 0>>
    /\ UNCHANGED <<activeOutlines, animationFrameId, drawQueue, isResizeScheduled,
                   resizeTimers, lastVia, scrollPos, scrollEventPending,
                   isScrollScheduled, scrollTimers>>

\* the setup callback of scheduleSetup, taken to run once
GetCanvasEl(outcome) ==
    /\ ~mounted
    /\ mounted' = TRUE
    /\ getCanvasEl(outcome)
    /\ UNCHANGED <<stopped, pipelineVars, mergeVars, bufferVars, apiVars>>

\* updateOutlines: the outlines of the record set start their fade
updateOutlines == MaxLife

\* drawCanvas paints and lets time pass: the frames left after the tick
drawCanvas(life) == {n \in {life, life - 1} : n >= 0}

\* the body of draw, with the frames drawCanvas leaves and the number of draw
\* callbacks that are queued when it runs
draw(left, queued) ==
    IF ~ctx \/ ~canvas
    THEN UNCHANGED <<activeOutlines, animationFrameId>> /\ drawQueue' = queued
    ELSE /\ activeOutlines' = left
         /\ animationFrameId' = (left > 0)
         /\ drawQueue' = IF left > 0 THEN queued + 1 ELSE queued

\* the end of the loop body of flushOutlines for a non-empty record set
SubmitRecords ==
    /\ mounted
    /\ IF worker
       THEN /\ lastVia' = "worker"
            /\ UNCHANGED <<activeOutlines, animationFrameId, drawQueue>>
       ELSE IF canvas /\ ctx
            THEN /\ lastVia' = "in-process"
                 /\ activeOutlines' = updateOutlines
                 /\ animationFrameId' = TRUE
                 /\ drawQueue' = IF animationFrameId THEN drawQueue ELSE drawQueue + 1
            ELSE /\ lastVia' = "dropped"
                 /\ UNCHANGED <<activeOutlines, animationFrameId, drawQueue>>
    /\ drawQueue' <= MaxPending
    /\ UNCHANGED <<mounted, canvas, worker, workerInit, ctx, isResizeScheduled,
                   resizeTimers,
                   stopVars, pipelineVars, mergeVars, bufferVars, apiVars,
                   scrollVars>>

\* an animation frame runs a queued draw
DrawTick ==
    /\ drawQueue > 0
    /\ \E left \in drawCanvas(activeOutlines) : draw(left, drawQueue - 1)
    /\ UNCHANGED <<mounted, canvas, worker, workerInit, ctx, isResizeScheduled, resizeTimers,
                   lastVia,
                   stopVars, pipelineVars, mergeVars, bufferVars, apiVars,
                   scrollVars>>

\* a listener that sets a timeout at every event
Schedule_Always(flag, timers) == timers + 1

\* if (!isScheduled) { isScheduled = true; setTimeout(...) }: the pending
\* timeouts of a listener after an event
Schedule(flag, timers) == IF flag THEN timers ELSE timers + 1

\* the resize listener
Resize ==
    /\ mounted
    /\ isResizeScheduled' = TRUE
    /\ resizeTimers' = Schedule(isResizeScheduled, resizeTimers)
    /\ resizeTimers' <= MaxPending
    /\ UNCHANGED <<mounted, canvas, worker, workerInit, ctx, activeOutlines,
                   animationFrameId, drawQueue, lastVia, stopVars, pipelineVars, mergeVars,
                   bufferVars, apiVars,
                   scrollVars>>

\* the timeout of the resize listener: the worker is told, or draw() is called
ResizeTimeout ==
    /\ resizeTimers > 0
    /\ resizeTimers' = resizeTimers - 1
    /\ isResizeScheduled' = FALSE
    /\ IF worker
       THEN UNCHANGED <<activeOutlines, animationFrameId, drawQueue>>
       ELSE \E left \in drawCanvas(activeOutlines) : draw(left, drawQueue)
    /\ drawQueue' <= MaxPending
    /\ UNCHANGED <<mounted, canvas, worker, workerInit, ctx, lastVia,
                   stopVars, pipelineVars, mergeVars, bufferVars, apiVars,
                   scrollVars>>

\* the scroll positions of the document
ScrollPositions == (0..MaxScroll) \X (0..MaxScroll)

\* the user scrolls: the position changes now, the scroll event fires later
ScrollTo(p) ==
    /\ p # scrollPos
    /\ scrollPos' = p
    /\ scrollEventPending' = TRUE
    /\ UNCHANGED <<prevScroll, isScrollScheduled, scrollTimers, setupScroll, forwardedSum,
                   rendererVars, stopVars, pipelineVars, mergeVars, bufferVars, apiVars>>

\* the scroll event fires: the listener runs if getCanvasEl has registered it
OnScroll ==
    /\ scrollEventPending
    /\ scrollEventPending' = FALSE
    /\ isScrollScheduled' = IF mounted THEN TRUE ELSE isScrollScheduled
    /\ scrollTimers' = IF mounted THEN Schedule(isScrollScheduled, scrollTimers)
                                  ELSE scrollTimers
    /\ scrollTimers' <= MaxPending
    /\ UNCHANGED <<scrollPos, prevScroll, setupScroll, forwardedSum,
                   rendererVars, stopVars, pipelineVars, mergeVars, bufferVars, apiVars>>

\* a timeout that measures every delta from the position at setup
NextPrevScroll_Kept(pos, prev) == prev

\* prevScrollX = scrollX; prevScrollY = scrollY
NextPrevScroll(pos, prev) == pos

\* the timeout of the scroll listener: the delta since the last known position
\* goes to the worker or to updateScroll
ScrollTimeout ==
    /\ scrollTimers > 0
    /\ scrollTimers' = scrollTimers - 1
    /\ LET deltaX == scrollPos[1] - prevScroll[1]
           deltaY == scrollPos[2] - prevScroll[2]
       IN  forwardedSum' = <<forwardedSum[1] + deltaX, forwardedSum[2] + deltaY>>
    /\ prevScroll' = NextPrevScroll(scrollPos, prevScroll)
    /\ isScrollScheduled' = FALSE
    /\ UNCHANGED <<scrollPos, scrollEventPending, setupScroll,
                   rendererVars, stopVars, pipelineVars, mergeVars, bufferVars, apiVars>>

InitRenderer ==
    /\ PipelineInit
    /\ MergeIdle
    /\ BufferIdle
    /\ ApiIdle
    /\ stopped = FALSE
    /\ hostAttached = FALSE
    /\ mounted = FALSE
    /\ canvas = FALSE
    /\ worker = FALSE
    /\ workerInit = FALSE
    /\ ctx = FALSE
    /\ activeOutlines = 0
    /\ animationFrameId = FALSE
    /\ drawQueue = 0
    /\ isResizeScheduled = FALSE
    /\ resizeTimers = 0
    /\ lastVia = "none"
    /\ scrollPos \in ScrollPositions
    /\ scrollEventPending = FALSE
    /\ prevScroll = <<0, 0>>
    /\ isScrollScheduled = FALSE
    /\ scrollTimers = 0
    /\ setupScroll = <<0, 0>>
    /\ forwardedSum = <<0, 0>>

NextRenderer ==
    \/ \E outcome \in InitOutcomes : GetCanvasEl(outcome)
    \/ SubmitRecords
    \/ DrawTick
    \/ Resize
    \/ ResizeTimeout
    \/ \E p \in ScrollPositions : ScrollTo(p)
    \/ OnScroll
    \/ ScrollTimeout

SpecRenderer == InitRenderer /\ [][NextRenderer]_vars

----------------------------------------------------------------------------
(* The buffered variant: flushOutlines encodes a record set into a fresh      *)
(* Float32Array and posts it to the worker                                     *)

\* slots per record (OUTLINE_ARRAY_SIZE of the canvas module)
OUTLINE_ARRAY_SIZE == 7

\* bytes per slot of a Float32Array
BytesPerSlot == 4

\* A number is modelled by a non-negative integer.  A double holds every
\* integer below 2^53, a float32 has 24 significant bits.
TwoTo24 == 16777216

RECURSIVE Ulp(_)
\* the distance between neighbouring float32 values at n
Ulp(n) == IF n < TwoTo24 THEN 1 ELSE 2 * Ulp(n \div 2)

\* the store into a Float32Array: round to the nearest float32, ties to even
Fround(n) ==
    LET u == Ulp(n)
        q == n \div u
        r == n % u
    IN  IF 2 * r < u THEN q * u
        ELSE IF 2 * r > u THEN (q + 1) * u
        ELSE IF q % 2 = 0 THEN q * u ELSE (q + 1) * u

\* the values the fields of a record take
FiberIds == {1, 8388607}

RecordXs == {0, 16777217}

\* a record as the second loop of flushOutlines holds it: blueprint, id, rectangle
RecordChoices ==
    {[id |-> i, name |-> (IF i = 1 THEN "A" ELSE "B"), count |-> 2,
      x |-> x, y |-> 20, width |-> 10, height |-> 5, didCommit |-> d] :
        i \in FiberIds, x \in RecordXs, d \in {0, 1}}

\* non-empty record sets, one record per fiber id
RecordSets ==
    {rs \in UNION {[1..n -> RecordChoices] : n \in 1..MaxRecords} :
        \A i \in 1..Len(rs) : \A j \in 1..Len(rs) : i # j => rs[i].id # rs[j].id}

\* a pool that hands out the last buffer again when it has the right size
AllocBuffer_Pooled(h, n) ==
    IF h # << >> /\ Len(h[Len(h)].data) = n * OUTLINE_ARRAY_SIZE
    THEN h
    ELSE Append(h, [data |-> [k \in 1..(n * OUTLINE_ARRAY_SIZE) |-> 0], posted |-> FALSE])

\* new SupportedArrayBuffer(blueprints.length * OUTLINE_ARRAY_SIZE * 4): zero filled
AllocBuffer(h, n) ==
    Append(h, [data |-> [k \in 1..(n * OUTLINE_ARRAY_SIZE) |-> 0], posted |-> FALSE])

\* a loop body that writes y before x
Slots_Swapped(r) == <<r.id, r.count, r.y, r.x, r.width, r.height, r.didCommit>>

\* the seven values the loop body writes for a record, at scaledIndex + 0..6
Slots(r) == <<r.id, r.count, r.x, r.y, r.width, r.height, r.didCommit>>

\* the loop body reaches the buffered branch with a non-empty record set
BeginEncode(rs) ==
    /\ blueprints = << >>
    /\ Len(messages) < MaxForwards
    /\ blueprints' = rs
    /\ heap' = AllocBuffer(heap, Len(rs))
    /\ arrayBuffer' = Len(heap')
    /\ blueprintNames' = [k \in 1..Len(rs) |-> ""]
    /\ fillIndex' = 0
    /\ UNCHANGED <<messages, pipelineVars, mergeVars, stopVars, rendererVars, scrollVars, apiVars>>

\* one turn of the encoding loop
WriteRecord ==
    /\ blueprints # << >>
    /\ fillIndex < Len(blueprints)
    /\ LET r == blueprints[fillIndex + 1]
           scaledIndex == fillIndex * OUTLINE_ARRAY_SIZE
       IN  /\ heap' = [heap EXCEPT ![arrayBuffer].data =
                          [k \in DOMAIN @ |->
                              IF k - 1 \in scaledIndex..(scaledIndex + 6)
                              THEN Fround(Slots(r)[k - scaledIndex])
                              ELSE @[k]]]
           /\ blueprintNames' = [blueprintNames EXCEPT ![fillIndex + 1] = r.name]
    /\ fillIndex' = fillIndex + 1
    /\ UNCHANGED <<arrayBuffer, blueprints, messages,
                   pipelineVars, mergeVars, stopVars, rendererVars, scrollVars, apiVars>>

\* worker.postMessage({type: 'draw-outlines', data: arrayBuffer, names: blueprintNames});
\* `records` is history: the record set the message was built from
PostMessage ==
    /\ blueprints # << >>
    /\ fillIndex = Len(blueprints)
    /\ messages' = Append(messages,
                          [type |-> "draw-outlines", data |-> arrayBuffer,
                           names |-> blueprintNames, records |-> blueprints])
    /\ heap' = [heap EXCEPT ![arrayBuffer].posted = TRUE]
    /\ arrayBuffer' = 0
    /\ blueprints' = << >>
    /\ blueprintNames' = << >>
    /\ fillIndex' = 0
    /\ UNCHANGED <<pipelineVars, mergeVars, stopVars, rendererVars, scrollVars, apiVars>>

\* the receiving side reads record i from the seven slots at i * 7 and names[i]
Decode(data, names) ==
    [i \in 1..Len(names) |->
        LET o == (i - 1) * OUTLINE_ARRAY_SIZE
        IN  [id |-> data[o + 1], name |-> names[i], count |-> data[o + 2],
             x |-> data[o + 3], y |-> data[o + 4], width |-> data[o + 5],
             height |-> data[o + 6], didCommit |-> data[o + 7]]]

InitBuffer ==
    /\ PipelineInit
    /\ MergeIdle
    /\ Running
    /\ ScrollIdle
    /\ BufferIdle
    /\ ApiIdle
    /\ mounted = TRUE
    /\ canvas = TRUE
    /\ worker = TRUE
    /\ workerInit = TRUE
    /\ ctx = FALSE
    /\ activeOutlines = 0
    /\ animationFrameId = FALSE
    /\ drawQueue = 0
    /\ isResizeScheduled = FALSE
    /\ resizeTimers = 0
    /\ lastVia = "none"

NextBuffer ==
    \/ \E rs \in RecordSets : BeginEncode(rs)
    \/ WriteRecord
    \/ PostMessage

SpecBuffer == InitBuffer /\ [][NextBuffer]_vars

----------------------------------------------------------------------------
(* setOptions and validateOptions of core/index.ts *)

\* the fields of the Options interface
BooleanKeys ==
    {"enabled", "log", "showToolbar", "showNotificationCount",
     "dangerouslyForceRunInProduction", "trackUnnecessaryRenders", "showFPS"}

CallbackKeys == {"onCommitStart", "onCommitFinish", "onPaintStart", "onPaintFinish", "onRender"}

OptionKeys == BooleanKeys \cup CallbackKeys \cup {"animationSpeed", "_debug"}

\* the keys and values the calls of the model pass; "bogus" is no field of Options
InputKeys == {"enabled", "animationSpeed", "trackUnnecessaryRenders", "_debug", "onRender", "bogus"}

InputValues == {"true", "false", "slow", "verbose", "fn", "undefined"}

UserOptions ==
    UNION {[K -> InputValues] : K \in {K \in SUBSET InputKeys : Cardinality(K) <= MaxFields}}

TypeOf(v) ==
    CASE v \in {"true", "false"} -> "boolean"
      [] v = "fn" -> "function"
      [] v = "undefined" -> "undefined"
      [] OTHER -> "string"

\* a key test against the interface instead of the keys of the current value
isOptionKey_Interface(opts, key) == key \in OptionKeys

\* Object.keys(ReactScanInternals.options.value).includes(key)
isOptionKey(opts, key) == key \in DOMAIN opts

\* the type check of the switch in validateOptions
PassesCheck(key, value) ==
    CASE key \in BooleanKeys -> TypeOf(value) = "boolean"
      [] key = "animationSpeed" -> value \in {"slow", "fast", "off"}
      [] key = "_debug" -> value \in {"verbose", "false", "undefined"}
      [] key \in CallbackKeys -> value = "undefined" \/ TypeOf(value) = "function"
      [] OTHER -> FALSE

validateOptions(opts, user) ==
    [k \in {j \in DOMAIN user : isOptionKey(opts, j) /\ PassesCheck(j, user[j])} |-> user[k]]

\* { ...currentOptions, ...validOptions }
Spread(current, valid) ==
    [k \in DOMAIN current \cup DOMAIN valid |->
        IF k \in DOMAIN valid THEN valid[k] ELSE current[k]]

\* the body of setOptions
setOptions(userOptions) ==
    /\ lastUser' = userOptions
    /\ renderSkipped' = FALSE
    /\ prevOptions' = options
    /\ LET validOptions == validateOptions(options, userOptions)
       IN  IF DOMAIN validOptions = {} /\ "enabled" \notin DOMAIN userOptions
           THEN UNCHANGED <<options, isPaused>>
           ELSE /\ options' = Spread(options, validOptions)
                /\ isPaused' = IF instrumentation /\ "enabled" \in DOMAIN validOptions
                               THEN validOptions["enabled"] = "false"
                               ELSE isPaused

SetOptions(userOptions) ==
    /\ setOptions(userOptions)
    /\ UNCHANGED <<instrumentation, pipelineVars, mergeVars, stopVars, rendererVars,
                   scrollVars, bufferVars, setupVars, frameVars>>

\* a registration without the flag
addMessageListener_Unguarded(added, listeners) == <<TRUE, listeners + 1>>

\* addMessageListener on the flag and the number of registered listeners
addMessageListener(added, listeners) ==
    IF added THEN <<added, listeners>> ELSE <<TRUE, listeners + 1>>

\* the body of start() in a development build, with the options it finds and
\* the flag and listeners as they are when it is called: history.pushState
\* and history.replaceState are wrapped, the message listener is added, the
\* instrumentation is created unless the options disable it
start(opts, added, listeners) ==
    /\ pushStateWrappers < MaxStarts
    /\ pushStateWrappers' = pushStateWrappers + 1
    /\ replaceStateWrappers' = replaceStateWrappers + 1
    /\ messageListenerAdded' = addMessageListener(added, listeners)[1]
    /\ messageListeners' = addMessageListener(added, listeners)[2]
    /\ instrumentation' = (instrumentation \/ opts["enabled"] # "false")

Start ==
    /\ start(options, messageListenerAdded, messageListeners)
    /\ UNCHANGED <<options, prevOptions, lastUser, isPaused, renderSkipped,
                   urlChanged, requests, responses,
                   pipelineVars, mergeVars,
                   stopVars, rendererVars, scrollVars, bufferVars, setupVars>>

InitOptions ==
    /\ PipelineInit
    /\ MergeIdle
    /\ Running
    /\ RendererIdle
    /\ ScrollIdle
    /\ BufferIdle
    /\ OptionsIdle
    /\ SetupIdle
    /\ FrameIdle

NextOptions ==
    \/ \E userOptions \in UserOptions : SetOptions(userOptions)
    \/ Start

SpecOptions == InitOptions /\ [][NextOptions]_vars

----------------------------------------------------------------------------
(* onRender of the instrumentation: the pipeline with the pause of setOptions *)

\* a render callback that does not read the pause
OnRender_IgnoresPause(f, didCommit) == OutlineFiber(f, didCommit)

\* onRender: outlineFiber is called unless instrumentation.isPaused is set
OnRender(f, didCommit) ==
    IF instrumentation /\ isPaused
    THEN /\ NoMicrotask
         /\ renderSkipped' = TRUE
         /\ NothingForwarded
         /\ UNCHANGED <<blueprintMap, blueprintMapKeys, rafQueue, cycles, hist,
                        options, prevOptions, lastUser, instrumentation, isPaused,
                        mergeVars, stopVars, rendererVars, scrollVars, bufferVars,
                        setupVars, frameVars>>
    ELSE OutlineFiber(f, didCommit)

\* setOptions({enabled: true}) and setOptions({enabled: false})
EnabledCalls == {[k \in {"enabled"} |-> v] : v \in {"true", "false"}}

\* start() has created the instrumentation
InitPause ==
    /\ PipelineInit
    /\ MergeIdle
    /\ Running
    /\ RendererIdle
    /\ ScrollIdle
    /\ BufferIdle
    /\ SetupIdle
    /\ FrameIdle
    /\ options = DefaultOptions
    /\ prevOptions = DefaultOptions
    /\ lastUser = NoFields
    /\ instrumentation = TRUE
    /\ isPaused = FALSE
    /\ renderSkipped = FALSE

NextPause ==
    \/ \E f \in Fibers : \E didCommit \in CommitFlags(f) : OnRender(f, didCommit)
    \/ IntervalTick
    \/ RunFlush
    \/ \E c \in DOMAIN cycles :
          \E entries \in EntryLists(Observed(cycles[c])) : OnIntersect(c, entries)
    \/ \E c \in DOMAIN cycles : Finish(c)
    \/ \E userOptions \in EnabledCalls : NoMicrotask /\ SetOptions(userOptions)

SpecPause == InitPause /\ [][NextPause]_vars

----------------------------------------------------------------------------
(* scan(), the history wrappers of start() and handleParentMessage: the       *)
(* messages between the iframe and its parent                                  *)

\* the argument objects scan() is called with: none, the overlay disabled, the
\* overlay and the toolbar disabled
ScanCalls ==
    {NoFields,
     [k \in {"enabled"} |-> "false"],
     [k \in {"enabled", "showToolbar"} |-> "false"]}

\* scan(options): setOptions, addMessageListener, then start() unless the
\* options disable both the overlay and the toolbar
Scan(userOptions) ==
    /\ setOptions(userOptions)
    /\ LET added == addMessageListener(messageListenerAdded, messageListeners)
       IN  IF options'["enabled"] # "false" \/ options'["showToolbar"] = "true"
           THEN start(options', added[1], added[2])
           ELSE /\ messageListenerAdded' = added[1]
                /\ messageListeners' = added[2]
                /\ UNCHANGED <<pushStateWrappers, replaceStateWrappers, instrumentation>>
    /\ UNCHANGED <<urlChanged, requests, responses, pipelineVars, mergeVars, stopVars,
                   rendererVars, scrollVars, bufferVars, setupVars>>

\* a call of history.pushState by the page: every wrapper calls the function
\* it replaced and then handleUrlChange, which posts one IFRAME_URL_CHANGED
PushState ==
    /\ urlChanged' = pushStateWrappers
    /\ UNCHANGED <<pushStateWrappers, replaceStateWrappers, messageListenerAdded,
                   messageListeners, requests, responses, optionVars, setupVars,
                   pipelineVars, mergeVars, stopVars, rendererVars, scrollVars,
                   bufferVars>>

ReplaceState ==
    /\ urlChanged' = replaceStateWrappers
    /\ UNCHANGED <<pushStateWrappers, replaceStateWrappers, messageListenerAdded,
                   messageListeners, requests, responses, optionVars, setupVars,
                   pipelineVars, mergeVars, stopVars, rendererVars, scrollVars,
                   bufferVars>>

RequestTypes ==
    {"REQUEST_FILE_LIST", "REQUEST_IFRAME_URL", "REQUEST_PAGE_SCREENSHOT", "SET_THEME"}

\* the request types the handler answers
Answered == {"REQUEST_FILE_LIST", "REQUEST_IFRAME_URL", "REQUEST_PAGE_SCREENSHOT"}

\* the parent posts a request with requestId r
Request(r, type) ==
    /\ requests[r].pc = "idle"
    /\ requests' = [requests EXCEPT ![r] = [type |-> type, pc |-> "posted"]]
    /\ UNCHANGED <<pushStateWrappers, replaceStateWrappers, messageListenerAdded,
                   messageListeners, urlChanged, responses, optionVars, setupVars,
                   pipelineVars, mergeVars, stopVars, rendererVars, scrollVars,
                   bufferVars>>

\* how the capture of a screenshot ends: the awaited promises are fulfilled,
\* or one of them is rejected or a step throws
CaptureOutcomes == {"fulfilled", "rejected"}

\* a handler whose catch block posts nothing
ResponseTo_SilentCatch(r, type, outcome) ==
    CASE type = "REQUEST_FILE_LIST" ->
            <<[type |-> "FILE_LIST_RESPONSE", requestId |-> r,
               dataUrl |-> FALSE, error |-> FALSE]>>
      [] type = "REQUEST_IFRAME_URL" ->
            <<[type |-> "IFRAME_URL_RESPONSE", requestId |-> r,
               dataUrl |-> FALSE, error |-> FALSE]>>
      [] type = "REQUEST_PAGE_SCREENSHOT" /\ outcome = "fulfilled" ->
            <<[type |-> "PAGE_SCREENSHOT_RESPONSE", requestId |-> r,
               dataUrl |-> TRUE, error |-> FALSE]>>
      [] OTHER -> << >>

\* the messages one run of handleParentMessage posts for a request
ResponseTo(r, type, outcome) ==
    CASE type = "REQUEST_FILE_LIST" ->
            <<[type |-> "FILE_LIST_RESPONSE", requestId |-> r,
               dataUrl |-> FALSE, error |-> FALSE]>>
      [] type = "REQUEST_IFRAME_URL" ->
            <<[type |-> "IFRAME_URL_RESPONSE", requestId |-> r,
               dataUrl |-> FALSE, error |-> FALSE]>>
      [] type = "REQUEST_PAGE_SCREENSHOT" ->
            <<[type |-> "PAGE_SCREENSHOT_RESPONSE", requestId |-> r,
               dataUrl |-> (outcome = "fulfilled"), error |-> (outcome # "fulfilled")]>>
      [] OTHER -> << >>

RECURSIVE Times(_, _)
\* what n registered listeners post when each posts msgs
Times(n, msgs) == IF n = 0 THEN << >> ELSE msgs \o Times(n - 1, msgs)

\* the message event of request r: every registered listener runs
\* handleParentMessage up to its first await or to its end
HandleParentMessage(r) ==
    /\ requests[r].pc = "posted"
    /\ IF requests[r].type = "REQUEST_PAGE_SCREENSHOT"
       THEN /\ requests' = [requests EXCEPT ![r].pc = "capturing"]
            /\ UNCHANGED responses
       ELSE /\ requests' = [requests EXCEPT ![r].pc = "done"]
            /\ responses' = [responses EXCEPT ![r] =
                   @ \o Times(messageListeners, ResponseTo(r, requests[r].type, "fulfilled"))]
    /\ UNCHANGED <<pushStateWrappers, replaceStateWrappers, messageListenerAdded,
                   messageListeners, urlChanged, optionVars, setupVars,
                   pipelineVars, mergeVars, stopVars, rendererVars, scrollVars,
                   bufferVars>>

\* the capture of request r ends and the handler posts its response
CaptureSettles(r, outcome) ==
    /\ requests[r].pc = "capturing"
    /\ requests' = [requests EXCEPT ![r].pc = "done"]
    /\ responses' = [responses EXCEPT ![r] =
           @ \o Times(messageListeners, ResponseTo(r, requests[r].type, outcome))]
    /\ UNCHANGED <<pushStateWrappers, replaceStateWrappers, messageListenerAdded,
                   messageListeners, urlChanged, optionVars, setupVars,
                   pipelineVars, mergeVars, stopVars, rendererVars, scrollVars,
                   bufferVars>>

InitFrame ==
    /\ PipelineInit
    /\ MergeIdle
    /\ Running
    /\ RendererIdle
    /\ ScrollIdle
    /\ BufferIdle
    /\ ApiIdle

NextFrame ==
    \/ \E userOptions \in ScanCalls : Scan(userOptions)
    \/ Start
    \/ PushState
    \/ ReplaceState
    \/ \E r \in RequestIds : \E type \in RequestTypes : Request(r, type)
    \/ \E r \in RequestIds : HandleParentMessage(r)
    \/ \E r \in RequestIds : \E outcome \in CaptureOutcomes : CaptureSettles(r, outcome)

SpecFrame == InitFrame /\ [][NextFrame]_vars

\* a posted message is delivered, and a capture that has started ends
FrameFairness ==
    /\ \A r \in RequestIds : WF_vars(HandleParentMessage(r))
    /\ \A r \in RequestIds : WF_vars(\E outcome \in CaptureOutcomes : CaptureSettles(r, outcome))

SpecFrameLive == SpecFrame /\ FrameFairness

----------------------------------------------------------------------------
(* stop(): the pipeline with the global stop flag *)

\* the element document.querySelector('[data-react-scan]') finds is removed
cleanup == hostAttached' = FALSE

\* stop() sets the flag and removes the host container; it clears no timer and
\* the render callback of the instrumentation does not read the flag
Stop ==
    /\ NoMicrotask
    /\ stopped' = TRUE
    /\ cleanup
    /\ NothingForwarded
    /\ UNCHANGED <<blueprintMap, blueprintMapKeys, rafQueue, cycles, hist, mergeVars,
                   rendererVars, scrollVars, bufferVars, apiVars>>

NextStop ==
    \/ Next
    \/ Stop

SpecStop == Init /\ [][NextStop]_vars

----------------------------------------------------------------------------
(* initReactScanInstrumentation: the events that schedule the overlay setup *)

\* a cancelAnimationFrame that removes nothing
CancelFrame_Noop(queue, handle) == queue

\* cancelAnimationFrame(handle); no callback has the handle 0
CancelFrame(queue, handle) == queue \ {handle}

\* scheduleSetup
ScheduleSetup ==
    IF mounted
    THEN UNCHANGED setupVars
    ELSE /\ nextHandle < MaxHandles
         /\ nextHandle' = nextHandle + 1
         /\ schedule' = nextHandle'
         /\ setupQueue' = CancelFrame(setupQueue, schedule) \cup {nextHandle'}
         /\ UNCHANGED setupRuns

OnActive ==
    /\ IF stopped THEN UNCHANGED setupVars ELSE ScheduleSetup
    /\ UNCHANGED <<pipelineVars, mergeVars, stopVars, rendererVars, scrollVars,
                   bufferVars, optionVars, frameVars>>

OnCommitFinish ==
    /\ ScheduleSetup
    /\ UNCHANGED <<pipelineVars, mergeVars, stopVars, rendererVars, scrollVars,
                   bufferVars, optionVars, frameVars>>

OnPostCommitFiberRoot ==
    /\ ScheduleSetup
    /\ UNCHANGED <<pipelineVars, mergeVars, stopVars, rendererVars, scrollVars,
                   bufferVars, optionVars, frameVars>>

\* an animation frame runs the setup callback with handle h
SetupFrame(h, outcome) ==
    /\ h \in setupQueue
    /\ setupQueue' = setupQueue \ {h}
    /\ mounted' = TRUE
    /\ getCanvasEl(outcome)
    /\ setupRuns' = setupRuns + 1
    /\ UNCHANGED <<schedule, nextHandle, stopped, pipelineVars, mergeVars, bufferVars,
                   optionVars, frameVars>>

\* start() has called initReactScanInstrumentation, no event has arrived
InitSetup ==
    /\ PipelineInit
    /\ MergeIdle
    /\ BufferIdle
    /\ SetupIdle
    /\ FrameIdle
    /\ options = DefaultOptions
    /\ prevOptions = DefaultOptions
    /\ lastUser = NoFields
    /\ instrumentation = TRUE
    /\ isPaused = FALSE
    /\ renderSkipped = FALSE
    /\ stopped = FALSE
    /\ hostAttached = FALSE
    /\ mounted = FALSE
    /\ canvas = FALSE
    /\ worker = FALSE
    /\ workerInit = FALSE
    /\ ctx = FALSE
    /\ activeOutlines = 0
    /\ animationFrameId = FALSE
    /\ drawQueue = 0
    /\ isResizeScheduled = FALSE
    /\ resizeTimers = 0
    /\ lastVia = "none"
    /\ scrollPos \in ScrollPositions
    /\ scrollEventPending = FALSE
    /\ prevScroll = <<0, 0>>
    /\ isScrollScheduled = FALSE
    /\ scrollTimers = 0
    /\ setupScroll = <<0, 0>>
    /\ forwardedSum = <<0, 0>>

NextSetup ==
    \/ OnActive
    \/ OnCommitFinish
    \/ OnPostCommitFiberRoot
    \/ \E h \in setupQueue : \E outcome \in InitOutcomes : SetupFrame(h, outcome)
    \/ Stop

SpecSetup == InitSetup /\ [][NextSetup]_vars

----------------------------------------------------------------------------
(* Properties *)

Window == DOMAIN blueprintMap

Occurrences(keys, f) == Cardinality({i \in 1..Len(keys) : keys[i] = f})

\* the flushOutlines executions between their start and their window clear
Unfinished == {c \in DOMAIN cycles : cycles[c].pc # "finished"}

\* the drawable elements of a blueprint
DrawableOf(bp) == Range(bp.elements) \cap Elements

\* C1: after N >= 1 accepted notifications of a fiber with no clear in between,
\* the window holds exactly one blueprint of the fiber and its count is N (and
\* a fiber without such a notification has none).
C1_CountIsNotifications ==
    \A f \in Fibers :
        /\ (f \in Window) <=> (notifCount[f] >= 1)
        /\ f \in Window =>
              /\ blueprintMap[f].count = notifCount[f]
              /\ Occurrences(blueprintMapKeys, f) = 1

C1_Witness ==
    /\ "A" \in Window /\ notifCount["A"] = 2
    /\ "B" \in Window /\ notifCount["B"] = 1

\* C2: the didCommit of a blueprint is 1 exactly when one of the notifications
\* of its fiber in the window, the first or a later one, had didCommit.
C2_StickyOr ==
    \A f \in Window : (blueprintMap[f].didCommit = 1) <=> notifCommit[f]

\* C3: at most one flushOutlines execution is between its start and its final
\* window clear.
C3_OneCycleAtATime == Cardinality(Unfinished) <= 1

\* C4: once a cycle has forwarded a record of a blueprint, no other cycle
\* forwards a record of that blueprint for as long as it stays in the window.
C4_FlushedOnce ==
    [][\A f \in Fibers :
          (f \in Window /\ f \in DOMAIN blueprintMap' /\ flushedBy[f] # 0)
              => flushedBy'[f] = flushedBy[f]]_vars

\* C5: the blueprints the clear of a cycle removes are blueprints whose elements
\* that cycle collected.
C5_DrainIsAtomic ==
    [][\A c \in DOMAIN cycles :
          (cycles[c].pc = "exit" /\ cycles'[c].pc = "finished")
              => \A f \in Window \ DOMAIN blueprintMap' :
                    DrawableOf(blueprintMap[f]) \subseteq cycles[c].uniqueElements]_vars

\* C6: once the host has reported every one of the K watched elements of a
\* pass (in callbacks of any size, with repeats), the pass is done, its
\* observer is disconnected and the consumer is no longer awaiting.
C6_PassTerminates ==
    \A c \in DOMAIN cycles :
        /\ (cycles[c].reported # {} /\ cycles[c].reported = cycles[c].uniqueElements)
              => /\ cycles[c].done
                 /\ ~cycles[c].connected
                 /\ cycles[c].pc # "await"
        /\ cycles[c].pc \in {"exit", "finished"}
              => cycles[c].done /\ ~cycles[c].connected

C6_Witness ==
    \E c \in DOMAIN cycles :
        /\ cycles[c].pc = "exit"
        /\ cycles[c].reported = {"e1", "e2"}
        /\ cycles[c].uniqueElements = {"e1", "e2"}

\* C7: within a pass an element is handed to the consumer at most once, and
\* exactly once when the host has reported it.
C7_DeliveredOnce ==
    \A c \in DOMAIN cycles : \A e \in Elements :
        /\ cycles[c].delivered[e] <= 1
        /\ (e \in cycles[c].reported) <=> (cycles[c].delivered[e] = 1)
        /\ (e \in cycles[c].seenElements) <=> (cycles[c].delivered[e] = 1)

C7_Witness ==
    \E c \in DOMAIN cycles :
        /\ cycles[c].pc = "await"
        /\ cycles[c].uniqueElements = {"e1", "e2"}
        /\ cycles[c].delivered["e2"] = 1
        /\ cycles[c].delivered["e1"] = 0
        /\ consumedBy = 0

\* C8: a flush cycle that is suspended can still be woken: its observer
\* watches an element that has not reported (so that the cycle can complete
\* and clear the window).
C8_FlushCompletes ==
    \A c \in DOMAIN cycles :
        cycles[c].pc = "await"
            => Observed(cycles[c]) \ cycles[c].seenElements # {}

\* an interval tick that enqueues a flush
EnqueueFlush == IntervalTick /\ rafQueue' = rafQueue + 1

\* the fibers of the window with a rectangle resolved by cycle c
ResolvedBy(c) ==
    {f \in Window : DrawableOf(blueprintMap[f]) \cap DOMAIN cycles[c].rectsMap # {}}

\* C9: while a pass waits for an element that has not reported, the scheduler
\* still enqueues and starts later cycles for a non-empty window (at the next
\* task, once pending continuations have run), and the records the waiting
\* cycle forwards are those of the resolved blueprints only.
C9_SilentDegradation ==
    \A c \in DOMAIN cycles :
        (cycles[c].pc = "await" /\ cycles[c].uniqueElements # cycles[c].reported)
            => /\ (Len(blueprintMapKeys) > 0 /\ Room /\ NoMicrotask) => ENABLED EnqueueFlush
               /\ (rafQueue > 0 /\ NoMicrotask) => ENABLED RunFlush
               /\ consumedBy = c =>
                     RecordIds(posted) = {getFiberId(f) : f \in ResolvedBy(c)}

C9_Witness ==
    \E c \in DOMAIN cycles : \E d \in DOMAIN cycles :
        /\ c < d
        /\ cycles[c].pc = "await"
        /\ cycles[c].reported = {"e1"}
        /\ cycles[c].uniqueElements = {"e1", "e2"}
        /\ consumedBy = d
        /\ Len(posted) > 0

\* C10: after each batch a cycle consumes, the forwarded record set holds
\* exactly one record for every blueprint of the window with a resolved
\* rectangle of that cycle and none for another, each with the count and the
\* didCommit of its blueprint.
C10_RecordsAfterBatch ==
    consumedBy # 0 =>
        /\ \A f \in Fibers :
              Cardinality({i \in 1..Len(posted) : posted[i].id = getFiberId(f)})
                  = IF f \in ResolvedBy(consumedBy) THEN 1 ELSE 0
        /\ \A i \in 1..Len(posted) : \E f \in Window :
              /\ posted[i].id = getFiberId(f)
              /\ posted[i].count = blueprintMap[f].count
              /\ posted[i].count = notifCount[f]
              /\ posted[i].didCommit = blueprintMap[f].didCommit

C10_Witness ==
    /\ consumedBy # 0
    /\ Len(posted) = 2
    /\ \E i \in 1..2 : posted[i].id = 1 /\ posted[i].count = 1 /\ posted[i].didCommit = 1
    /\ \E i \in 1..2 : posted[i].id = 2 /\ posted[i].count = 2 /\ posted[i].didCommit = 0

\* the last entry the host reported for element e in a callback
LastReport(entries, e) ==
    entries[CHOOSE i \in 1..Len(entries) :
                /\ entries[i].target = e
                /\ \A j \in (i + 1)..Len(entries) : entries[j].target # e]

\* C11: the rectangles a cycle holds for its records are rectangles of elements
\* reported in that cycle, and an element the host reports as not intersecting
\* (or with an empty intersection rectangle) in a cycle has no rectangle in
\* that cycle's rectsMap afterwards.
C11_NoStaleGeometry ==
    [][\A c \in DOMAIN cycles :
          \A entries \in EntryLists(Observed(cycles[c])) :
              OnIntersect(c, entries) =>
                  /\ DOMAIN cycles'[c].rectsMap \subseteq cycles'[c].reported
                  /\ \A e \in Targets(entries) :
                        ~Resolves(LastReport(entries, e))
                            => e \notin DOMAIN cycles'[c].rectsMap]_vars

\* C12: the step in which the host delivers a callback with new entries to a
\* pass is the step in which the cycle forwards the records of that batch
\* (built from the rectangles stored so far plus those of the batch); when the
\* step ends the cycle awaits the next batch or has left the loop, and no
\* other cycle has moved: forwards happen in the order of the callbacks.
C12_ForwardInArrivalOrder ==
    [][/\ \A c \in DOMAIN cycles :
             cycles'[c] # cycles[c] =>
                \A entries \in EntryLists(Observed(cycles[c])) :
                    (/\ NewEntries(entries, cycles[c].seenElements) # << >>
                     /\ OnIntersect(c, entries))
                        => /\ consumedBy' = c
                           /\ posted' = OutlineRecords(blueprintMapKeys, blueprintMap,
                                  StoreRects(NewEntries(entries, cycles[c].seenElements),
                                             cycles[c].rectsMap))
                           /\ cycles'[c].value = << >>
                           /\ cycles'[c].pc \in {"await", "exit"}
                           /\ \A d \in DOMAIN cycles \ {c} : cycles'[d] = cycles[d]
       /\ posted' # << >> =>
             \E c \in DOMAIN cycles : \E entries \in EntryLists(Observed(cycles[c])) :
                 OnIntersect(c, entries)]_vars

C12_Witness ==
    \E c \in DOMAIN cycles :
        /\ consumedBy = c
        /\ cycles[c].pc = "await"
        /\ cycles[c].reported = {"e2"}
        /\ Len(posted) = 1

\* b holds entries of s in the order they have in s
OrderedSubseq(b, s) ==
    \E idx \in [1..Len(b) -> 1..Len(s)] :
        /\ \A i \in 1..Len(b) : b[i] = s[idx[i]]
        /\ \A i \in 1..Len(b) : \A j \in 1..Len(b) : i < j => idx[i] < idx[j]

\* C13: the batch a callback hands to the consumer holds the entries of the
\* callback whose element the pass had not seen, once each, in the order they
\* had in the callback, and it is the batch the consumer receives in that step.
C13_BatchKeepsOrder ==
    [][\A c \in DOMAIN cycles :
          cycles'[c].delivered # cycles[c].delivered =>
             \A entries \in EntryLists(Observed(cycles[c])) :
                 OnIntersect(c, entries) =>
                    LET b == AfterIntersect(cycles[c], entries).value
                    IN  /\ OrderedSubseq(b, entries)
                        /\ Targets(b) = Targets(entries) \ cycles[c].seenElements
                        /\ Cardinality(Targets(b)) = Len(b)
                        /\ \A i \in 1..Len(b) : \E j \in 1..Len(entries) :
                              /\ entries[j] = b[i]
                              /\ \A k \in 1..(j - 1) : entries[k].target # b[i].target
                        /\ \A e \in Elements :
                              cycles'[c].delivered[e] = cycles[c].delivered[e]
                                  + (IF e \in Targets(b) THEN 1 ELSE 0)]_vars

C13_Witness ==
    \E c \in DOMAIN cycles :
        /\ consumedBy = c
        /\ cycles[c].pc = "exit"
        /\ cycles[c].delivered = [e \in Elements |-> 1]
        /\ DOMAIN cycles[c].rectsMap = {"e2"}
        /\ Len(posted) = 1

\* C14: whenever the loop body of a cycle runs, the batch it received has at
\* least one entry: some element is handed to it in that step.  A pass never
\* ends by handing an empty batch to the body.
C14_NonEmptyBatches ==
    [][\A c \in DOMAIN cycles :
          consumedBy' = c =>
              \E e \in Elements : cycles'[c].delivered[e] > cycles[c].delivered[e]]_vars

C14_Witness ==
    \E c \in DOMAIN cycles :
        /\ consumedBy = c
        /\ cycles[c].pc = "exit"
        /\ cycles[c].uniqueElements = {"e1"}
        /\ cycles[c].delivered["e1"] = 1

\* C15: every flushOutlines execution starts a pass with an observer and a
\* seen set of its own and leaves the earlier passes as they are; a step that
\* changes the seen set of a pass or wakes its consumer changes no other pass,
\* and a seen set holds elements of its own pass only; a pass that has ended
\* watches nothing.
C15_OwnSubscription ==
    [][/\ Len(cycles') > Len(cycles) =>
             /\ cycles'[Len(cycles')].seenElements = {}
             /\ cycles'[Len(cycles')].connected
             /\ \A d \in DOMAIN cycles : cycles'[d] = cycles[d]
       /\ \A c \in DOMAIN cycles :
             /\ (cycles'[c].seenElements # cycles[c].seenElements \/ consumedBy' = c)
                   => \A d \in DOMAIN cycles \ {c} : cycles'[d] = cycles[d]
             /\ cycles'[c].seenElements \subseteq cycles'[c].uniqueElements
             /\ cycles'[c].pc \in {"exit", "finished"}
                   => ~cycles'[c].connected /\ Observed(cycles'[c]) = {}]_vars

C15_Witness ==
    /\ Len(cycles) = 2
    /\ cycles[1].pc = "finished"
    /\ ~cycles[1].connected
    /\ cycles[2].pc = "exit"
    /\ cycles[2].uniqueElements = {"e1", "e2"}

\* the least and the greatest number of a non-empty finite set
MinOf(S) == CHOOSE m \in S : \A n \in S : m <= n

MaxOf(S) == CHOOSE m \in S : \A n \in S : m >= n

\* rectangle r lies within rectangle box
Contains(box, r) ==
    /\ box.x <= r.x
    /\ box.y <= r.y
    /\ r.x + r.width <= box.x + box.width
    /\ r.y + r.height <= box.y + box.height

\* C16: for a list of one rectangle, mergeRects returns that rectangle.
C16_MergeOfOne ==
    (Len(mergeInput) = 1 /\ mergeOutput # << >>) => mergeOutput[1] = mergeInput[1]

C16_Witness ==
    /\ mergeInput = <<DOMRect(1, 1, 1, 0)>>
    /\ mergeOutput = <<DOMRect(1, 1, 1, 0)>>

\* C17: for a non-empty list, mergeRects returns the box with x = min(x),
\* y = min(y), width = max(x + width) - min(x), height = max(y + height) -
\* min(y); every input rectangle lies within it, and every box that contains
\* them all contains it.
C17_BoundingBox ==
    (Len(mergeInput) >= 1 /\ mergeOutput # << >>) =>
        LET I == 1..Len(mergeInput)
            out == mergeOutput[1]
            minX == MinOf({mergeInput[i].x : i \in I})
            minY == MinOf({mergeInput[i].y : i \in I})
            maxX == MaxOf({mergeInput[i].x + mergeInput[i].width : i \in I})
            maxY == MaxOf({mergeInput[i].y + mergeInput[i].height : i \in I})
        IN  /\ out = DOMRect(minX, minY, maxX - minX, maxY - minY)
            /\ \A i \in I : Contains(out, mergeInput[i])
            /\ \A box \in Rects \cup {DOMRect(0, 0, 25, 25)} :
                  (\A i \in I : Contains(box, mergeInput[i])) => Contains(box, out)

C17_Witness ==
    /\ mergeInput = <<DOMRect(0, 0, 10, 10), DOMRect(20, 20, 5, 5)>>
    /\ mergeOutput = <<DOMRect(0, 0, 25, 25)>>

\* C18: when the loop body of a cycle has run, every rectangle list it passed
\* to mergeRects had at least one rectangle, and it passed one list for every
\* record it forwarded.
C18_MergeNeverEmpty ==
    consumedBy # 0 =>
        LET calls == MergeCalls(blueprintMapKeys, blueprintMap,
                                cycles[consumedBy].rectsMap)
        IN  /\ \A i \in 1..Len(calls) : Len(calls[i]) >= 1
            /\ Len(calls) = Len(posted)

C18_Witness ==
    /\ consumedBy # 0
    /\ Len(blueprintMapKeys) = 2
    /\ Len(posted) = 1
    /\ Len(MergeCalls(blueprintMapKeys, blueprintMap, cycles[consumedBy].rectsMap)) = 1

\* C19: the count of a blueprint is at least 1 and never decreases while the
\* blueprint stays in the window; a blueprint leaves the window only in the
\* clear of a flush, and a blueprint that enters the window has count 1.
C19_CountMonotone ==
    [][\A f \in Fibers :
          /\ f \in DOMAIN blueprintMap' => blueprintMap'[f].count >= 1
          /\ (f \in Window /\ f \in DOMAIN blueprintMap')
                => blueprintMap'[f].count >= blueprintMap[f].count
          /\ (f \in Window /\ f \notin DOMAIN blueprintMap')
                => \E c \in DOMAIN cycles :
                      cycles[c].pc = "exit" /\ cycles'[c].pc = "finished"
          /\ (f \notin Window /\ f \in DOMAIN blueprintMap')
                => blueprintMap'[f].count = 1]_vars

C19_Witness ==
    /\ Len(cycles) = 1
    /\ cycles[1].pc = "finished"
    /\ "A" \in Window
    /\ blueprintMap["A"].count = 2
    /\ "B" \in Window
    /\ blueprintMap["B"].count = 1

\* C20: every entry of the elements list of every blueprint of the window is
\* an Element.
C20_OnlyDrawable ==
    \A f \in Window : Range(blueprintMap[f].elements) \subseteq Elements

\* C21: whatever a flush cycle hands to the resolver, observes, sees or holds
\* a rectangle for is an Element, also when a blueprint of the window lists a
\* node that is none.
C21_OnlyElementsObserved ==
    \A c \in DOMAIN cycles :
        /\ cycles[c].uniqueElements \subseteq Elements
        /\ Observed(cycles[c]) \subseteq Elements
        /\ cycles[c].seenElements \subseteq Elements
        /\ DOMAIN cycles[c].rectsMap \subseteq Elements

C21_Witness ==
    \E c \in DOMAIN cycles :
        /\ cycles[c].pc = "await"
        /\ cycles[c].reported = {}
        /\ cycles[c].uniqueElements = {"e1", "e2"}
        /\ "B" \in Window
        /\ "n1" \in Range(blueprintMap["B"].elements)
        /\ "A" \notin Window

\* C22: once the stop flag is set, no step creates a blueprint or increments
\* a count, no step enqueues a flush, and the host container is gone.
C22_StopSuppresses ==
    [][/\ stopped =>
             /\ \A f \in DOMAIN blueprintMap' :
                   f \in Window /\ blueprintMap'[f].count = blueprintMap[f].count
             /\ rafQueue' <= rafQueue
       /\ stopped' => ~hostAttached']_vars

\* C23: when getCanvasEl has run and the worker initialisation did not
\* complete (at whichever step it failed), the in-process context exists,
\* there is no worker, and record sets are painted in-process.
C23_FallbackOnFailure ==
    (mounted /\ ~workerInit) =>
        /\ ctx
        /\ ~worker
        /\ lastVia \in {"none", "in-process"}

Ticks == (DrawTick \/ (ResizeTimeout /\ ~worker)) /\ ctx

\* C28: in the in-process variant, after a tick that leaves an outline exactly
\* one tick is pending; after a tick that leaves none no tick is pending and
\* animationFrameId is null; a record set submitted while animationFrameId is
\* null schedules a tick.
C28_ContinueHalt ==
    [][/\ Ticks =>
             IF activeOutlines' > 0
             THEN drawQueue' = 1 /\ animationFrameId'
             ELSE drawQueue' = 0 /\ ~animationFrameId'
       /\ (SubmitRecords /\ ctx /\ ~animationFrameId) =>
             drawQueue' = drawQueue + 1 /\ animationFrameId']_vars

\* C29: at most one draw callback is pending.
C29_OnePendingPaint == drawQueue <= 1

\* C30: when no scroll event and no scroll timeout is pending, the deltas
\* forwarded since setup add up to the current scroll position minus the
\* position at setup.
C30_DeltasAddUp ==
    (mounted /\ ~scrollEventPending /\ ~isScrollScheduled) =>
        /\ forwardedSum[1] = scrollPos[1] - setupScroll[1]
        /\ forwardedSum[2] = scrollPos[2] - setupScroll[2]

C30_Witness ==
    /\ mounted
    /\ ~scrollEventPending
    /\ ~isScrollScheduled
    /\ forwardedSum = <<1, -1>>

\* C25: the buffer of every draw-outlines message of n records has n * 7
\* slots of 4 bytes, the slots at offset i * 7 hold, as floats, id, count, x,
\* y, width, height, didCommit of record i in this order, and names[i] is the
\* name of record i.
C25_BufferLayout ==
    \A m \in 1..Len(messages) :
        LET n == Len(messages[m].records)
            data == heap[messages[m].data].data
        IN  /\ Len(data) * BytesPerSlot = n * 7 * 4
            /\ Len(messages[m].names) = n
            /\ \A i \in 0..(n - 1) :
                  LET r == messages[m].records[i + 1]
                  IN  /\ data[i * 7 + 1] = Fround(r.id)
                      /\ data[i * 7 + 2] = Fround(r.count)
                      /\ data[i * 7 + 3] = Fround(r.x)
                      /\ data[i * 7 + 4] = Fround(r.y)
                      /\ data[i * 7 + 5] = Fround(r.width)
                      /\ data[i * 7 + 6] = Fround(r.height)
                      /\ data[i * 7 + 7] = Fround(r.didCommit)
                      /\ messages[m].names[i + 1] = r.name

C25_Witness ==
    /\ Len(messages) = 1
    /\ Len(messages[1].records) = 2
    /\ messages[1].names = <<"B", "A">>
    /\ Len(heap[messages[1].data].data) = 14

\* C26: decoding the buffer and the names of a message gives back the record
\* set it was built from, every field as it was (ids and counts are below 2^23).
C26_RoundTrip ==
    \A m \in 1..Len(messages) :
        (\A i \in 1..Len(messages[m].records) :
              messages[m].records[i].id < 8388608 /\ messages[m].records[i].count < 8388608)
            => Decode(heap[messages[m].data].data, messages[m].names) = messages[m].records

\* C27: a step that starts encoding allocates a buffer that no message holds;
\* a message is posted only when all records are written; a posted buffer is
\* never written again.
C27_NoWriteAfterPost ==
    [][/\ \A b \in DOMAIN heap : heap[b].posted => heap'[b] = heap[b]
       /\ (blueprints = << >> /\ blueprints' # << >>) =>
             /\ arrayBuffer' = Len(heap) + 1
             /\ \A m \in 1..Len(messages) : messages[m].data # arrayBuffer'
       /\ Len(messages') > Len(messages) => fillIndex = Len(blueprints)]_vars

C27_Witness ==
    /\ Len(messages) = 1
    /\ heap[1].posted
    /\ arrayBuffer = 2
    /\ fillIndex = 1
    /\ Len(heap[1].data) = Len(heap[2].data)

\* C31: at most one timeout of the resize listener and at most one of the
\* scroll listener is pending; a resize or scroll event that arrives while the
\* listener's timeout is pending sets no further timeout, and one that arrives
\* while none is pending (at the start or after a run) sets one.
C31_Debounced ==
    [][/\ resizeTimers' <= 1
       /\ scrollTimers' <= 1
       /\ Resize => resizeTimers' = 1
       /\ (Resize /\ resizeTimers = 1) => UNCHANGED vars
       /\ (OnScroll /\ mounted) => scrollTimers' = 1
       /\ (OnScroll /\ scrollTimers = 1) => UNCHANGED <<scrollTimers, isScrollScheduled>>]_vars

\* a scroll run has finished, and a new scroll run and a resize run are pending
C31_Witness ==
    /\ forwardedSum # <<0, 0>>
    /\ scrollTimers = 1
    /\ isScrollScheduled
    /\ resizeTimers = 1
    /\ isResizeScheduled

\* C32: a flushOutlines callback is enqueued only by an interval tick that
\* finds at least one blueprint in the window, one tick enqueues at most one,
\* and a tick that finds the window empty enqueues none.
C32_TickEnqueues ==
    [][/\ rafQueue' <= rafQueue + 1
       /\ rafQueue' > rafQueue => (IntervalTick /\ Len(blueprintMapKeys) > 0)
       /\ (IntervalTick /\ blueprintMapKeys = << >>) => rafQueue' = rafQueue]_vars

\* a tick has enqueued a second cycle while the first is still running
C32_Witness ==
    /\ rafQueue = 1
    /\ Len(cycles) = 1
    /\ cycles[1].pc # "finished"
    /\ Len(blueprintMapKeys) > 0

\* C33: after a call of setOptions every supplied field of the Options
\* interface whose value passes its check has the supplied value, and every
\* other supplied field has the value, or the absence, it had before the call.
C33_FieldByField ==
    \A k \in DOMAIN lastUser :
        IF k \in OptionKeys /\ PassesCheck(k, lastUser[k])
        THEN k \in DOMAIN options /\ options[k] = lastUser[k]
        ELSE IF k \in DOMAIN prevOptions
             THEN k \in DOMAIN options /\ options[k] = prevOptions[k]
             ELSE k \notin DOMAIN options

\* C35: after a call of setOptions every supplied field of the Options
\* interface whose value passes its type check is stored with that value,
\* trackUnnecessaryRenders, _debug and the callbacks included.
C35_EveryFieldApplied ==
    \A k \in DOMAIN lastUser \cap OptionKeys :
        PassesCheck(k, lastUser[k]) => (k \in DOMAIN options /\ options[k] = lastUser[k])

\* C34: within one flush cycle every forwarded record set holds the blueprint
\* identities of the record set the cycle forwarded before it.
C34_ForwardedSetGrows ==
    [][\A c \in DOMAIN cycles :
          (consumedBy' = c /\ posted' # << >>) =>
              cycles[c].lastIds \subseteq RecordIds(posted')]_vars

\* C36: a render notification that arrives while the overlay is paused leaves
\* blueprintMap and blueprintMapKeys as they are, and so does, paused or not,
\* a notification for a fiber that is not composite or has no display name.
C36_PausedOrUnnamed ==
    [][\A f \in Fibers : \A didCommit \in CommitFlags(f) :
          (/\ OnRender(f, didCommit)
           /\ \/ instrumentation /\ isPaused
              \/ ~isCompositeFiber(f)
              \/ getDisplayName(f) = "")
            => UNCHANGED <<blueprintMap, blueprintMapKeys>>]_vars

\* a notification was dropped by the pause while a blueprint is in the window
\* and a cycle is waiting for geometry
C36_Witness ==
    /\ renderSkipped
    /\ isPaused
    /\ options["enabled"] = "false"
    /\ Len(blueprintMapKeys) > 0
    /\ \E c \in DOMAIN cycles : cycles[c].pc = "await"

\* C37: the setup callback (getCanvasEl and setupToolbar) runs at most once,
\* and at most one setup callback is pending.
C37_SetupOnce ==
    /\ setupRuns <= 1
    /\ Cardinality(setupQueue) <= 1

\* the setup has run after an earlier request was cancelled and replaced
C37_Witness ==
    /\ setupRuns = 1
    /\ mounted
    /\ nextHandle >= 2
    /\ setupQueue = {}

\* C38: after any number of calls of scan() and start(), a call of
\* history.pushState or history.replaceState (wrapped by start()) posts exactly
\* one IFRAME_URL_CHANGED message, and exactly one message listener is
\* registered.
C38_OneMessagePerNavigation ==
    [][/\ messageListeners' = 1
       /\ (PushState /\ pushStateWrappers >= 1) => urlChanged' = 1
       /\ (ReplaceState /\ replaceStateWrappers >= 1) => urlChanged' = 1]_vars

\* the number of responses with requestId r
Answers(r) == Len(responses[r])

\* C39: every REQUEST_FILE_LIST, REQUEST_IFRAME_URL and REQUEST_PAGE_SCREENSHOT
\* request is eventually answered; no request ever has more than one response
\* and a response carries the requestId of its request; a screenshot response
\* carries a dataUrl or an error, not both and not neither.
C39_AnsweredOnce ==
    /\ [](\A r \in RequestIds :
            /\ Answers(r) <= 1
            /\ \A i \in 1..Answers(r) :
                  /\ responses[r][i].requestId = r
                  /\ responses[r][i].type = "PAGE_SCREENSHOT_RESPONSE" =>
                        (responses[r][i].dataUrl # responses[r][i].error))
    /\ \A r \in RequestIds :
          (requests[r].pc = "posted" /\ requests[r].type \in Answered) ~> (Answers(r) = 1)

\* one screenshot request was answered with an image and one with an error,
\* after start() ran twice
C39_Witness ==
    /\ pushStateWrappers = 2
    /\ Answers(1) = 1
    /\ responses[1][1].dataUrl
    /\ Answers(2) = 1
    /\ responses[2][1].error

\* C40: the fibers that have a blueprint in blueprintMap are the fibers in
\* blueprintMapKeys, in every reachable state.
C40_KeysAgree ==
    /\ DOMAIN blueprintMap = Range(blueprintMapKeys)
    /\ Cardinality(Range(blueprintMapKeys)) = Len(blueprintMapKeys)

\* a cycle has cleared the window and two fibers have been added since
C40_Witness ==
    /\ \E c \in DOMAIN cycles : cycles[c].pc = "finished"
    /\ Len(blueprintMapKeys) = 2
    /\ DOMAIN blueprintMap = {"A", "B"}

====
